---- MODULE Spec2Model ----
(***************************************************************************)
(* Model of 02-nesterov-minimization.ipynb: BaseMinimizer.benchmark,       *)
(* BFGSMinimizer and NesterovMinimizer (a CustomIntegrator whose step runs *)
(* five computations in sequence on shared variables).                     *)
(*                                                                         *)
(* Numbers.  Positions, forces and energies are integers.  The energy      *)
(* model (the mm.System handed to the constructors) is the convex          *)
(* quadratic E(x) = k * sum_d x[d]^2 with force f[d] = -2*k*x[d].  The     *)
(* step size is a ratio <<num, den>>.  The momentum coefficients a_cur and *)
(* a_old are fixed-point numbers with AScale units per 1.0; sqrt is the    *)
(* integer square root and every division rounds down: these are the      *)
(* places where the program's doubles round.  Under Init every position    *)
(* is a multiple of a power of two large enough that dt * f is exact, as   *)
(* it is in doubles.                                                       *)
(***************************************************************************)
EXTENDS Integers, Sequences, FiniteSets, TLC

\* ------------------------------------------------------------ bounds
MaxIterations == 2
MaxCalls == 2
LongIterations == 20
AScale == 256

\* ------------------------------------------------------------ domains
Nesterov == "NesterovMinimizer"
BFGS == "BFGSMinimizer"
Instances == {Nesterov, BFGS}
Dofs == 1 .. 2

\* Every short scenario runs at most MaxIterations * MaxCalls integrator
\* steps; coordinates are multiples of PosScale, so halving stays exact.
PosScale == 2 ^ (MaxIterations * MaxCalls)
Coords == {0 - PosScale, 0, PosScale}
PositionGrid == [Dofs -> Coords]
SmallCoords == {0 - 1, 0, 1}
Stiffness == {1, 2}
StepSizes == {<<1, 4>>, <<1, 2>>}
ZeroVec == [d \in Dofs |-> 0]

VARIABLES
    positions,      \* the caller's initialPositions
    system,         \* the mm.System: stiffness k of the energy model
    numIterations,  \* NesterovMinimizer.numIterations
    stepSize,       \* dt of the CustomIntegrator, <<num, den>>
    constructed,    \* which minimizers have a context
    x,              \* positions held by each minimizer's context
    a_cur, a_old,   \* global variables of the CustomIntegrator
    y_cur, y_old,   \* per-dof variables of the CustomIntegrator
    pc,             \* "idle" | "minimize" | "returned"
    self,           \* the minimizer whose method is running
    caller,         \* "none" | "benchmark" | "direct"
    i,              \* steps done by the running integrator.step(n)
    initialEnergy,  \* benchmark's local
    report,         \* what each minimizer's last benchmark returned
    calls           \* minimize()/benchmark() calls made so far, per minimizer

vars == <<positions, system, numIterations, stepSize, constructed, x, a_cur,
          a_old, y_cur, y_old, pc, self, caller, i, initialEnergy, report, calls>>

\* ------------------------------------------------------------ energy model
Square(v) == v * v

RECURSIVE SumSquares(_, _)
SumSquares(p, S) ==
    IF S = {} THEN 0
    ELSE LET d == CHOOSE e \in S : TRUE
         IN Square(p[d]) + SumSquares(p, S \ {d})

\* context.getState(getEnergy=True).getPotentialEnergy()
Energy(k, p) == k * SumSquares(p, Dofs)

\* variant: the gradient itself, the direction of ascent
ForceAscent(k, p) == [d \in Dofs |-> 2 * k * p[d]]

\* f: the force, minus the gradient of the energy
Force(k, p) == [d \in Dofs |-> 0 - 2 * k * p[d]]

\* dt * v
ScaleByDt(dt, v) == (dt[1] * v) \div dt[2]

\* the step size is small for the model: dt < 2 / L with L = 2k
SmallStep(k, dt) == k * dt[1] < dt[2]

\* ------------------------------------------------------------ integrator
RECURSIVE SqrtSearch(_, _, _)
SqrtSearch(n, lo, hi) ==
    IF lo >= hi THEN lo
    ELSE LET mid == (lo + hi + 1) \div 2
         IN IF mid * mid <= n THEN SqrtSearch(n, mid, hi)
            ELSE SqrtSearch(n, lo, mid - 1)

\* sqrt, rounded down
ISqrt(n) == SqrtSearch(n, 0, 46340)

\* variant: 0.5*(1+sqrt(1+(a_old*a_old)))
CoefficientWithoutFour(a) == (AScale + ISqrt(AScale * AScale + a * a)) \div 2

\* 0.5*(1+sqrt(1+(4*a_old*a_old)))
NextCoefficient(a) == (AScale + ISqrt(AScale * AScale + 4 * a * a)) \div 2

\* (a_old - 1) / a_cur * d
Momentum(aold, acur, d) == ((((aold - AScale) * AScale) \div acur) * d) \div AScale

\* the state of one context: positions and the integrator's variables
ComputeACur(g) == [g EXCEPT !.a_cur = NextCoefficient(g.a_old)]

ComputeAOld(g) == [g EXCEPT !.a_old = g.a_cur]

ComputeYCur(g) ==
    [g EXCEPT !.y_cur = [d \in Dofs |-> g.x[d] + ScaleByDt(g.dt, Force(g.k, g.x)[d])]]

ComputeYOld(g) == [g EXCEPT !.y_old = g.y_cur]

ComputeX(g) ==
    [g EXCEPT !.x = [d \in Dofs |->
        g.y_cur[d] + Momentum(g.a_old, g.a_cur, g.y_cur[d] - g.y_old[d])]]

\* variant: the update with the momentum term read from the values a_old and
\* y_old held before the step
SnapshotStep(g) ==
    LET Then(S, Compute(_)) == {Compute(s) : s \in S}
        ExtrapolateFrom(h) ==
            [h EXCEPT !.x = [d \in Dofs |->
                h.y_cur[d] + Momentum(g.a_old, h.a_cur, h.y_cur[d] - g.y_old[d])]]
    IN CHOOSE r \in Then(Then(Then(Then(Then({g},
           ComputeACur), ComputeAOld), ComputeYCur), ComputeYOld), ExtrapolateFrom) : TRUE

\* one integrator step: the five computations in the order they were added
\* (Then binds each intermediate state to a value before the next reads it)
IntegratorStep(g) ==
    LET Then(S, Compute(_)) == {Compute(s) : s \in S}
    IN CHOOSE r \in Then(Then(Then(Then(Then({g},
           ComputeACur), ComputeAOld), ComputeYCur), ComputeYOld), ComputeX) : TRUE

\* the running context as the integrator sees it
Context ==
    [x |-> x[Nesterov], a_cur |-> a_cur, a_old |-> a_old, y_cur |-> y_cur,
     y_old |-> y_old, dt |-> stepSize, k |-> system]

\* variant: a loop that tests its count after the step
LoopDoneAtLeastOnce == i >= numIterations /\ i >= 1

\* variant: a loop that also stops once the force vanishes
LoopDoneOnConvergence == i >= numIterations \/ Force(system, x[Nesterov]) = ZeroVec

\* integrator.step(self.numIterations) has run its steps
StepLoopDone == i >= numIterations

\* variant: one context shared by every minimizer
SharedContext(inst, p) == [j \in Instances |-> p]

\* the context of inst holds p; the other contexts are not touched
StoredPositions(inst, p) == [x EXCEPT ![inst] = p]

\* variant: the energy read before minimize, kept
CachedEnergy == initialEnergy

\* benchmark's second getState(getEnergy=True) on the running minimizer
FinalEnergyRead == Energy(system, x[self])

\* calls made so far on all minimizers
TotalCalls == calls[Nesterov] + calls[BFGS]

NoReport == [valid |-> FALSE, initial |-> 0, final |-> 0]

\* ------------------------------------------------------------ initial states
Unstarted ==
    /\ constructed = [j \in Instances |-> FALSE]
    /\ x = [j \in Instances |-> ZeroVec]
    /\ a_cur = 0 /\ a_old = 0
    /\ y_cur = ZeroVec /\ y_old = ZeroVec
    /\ pc = "idle" /\ self = Nesterov /\ caller = "none"
    /\ i = 0 /\ initialEnergy = 0
    /\ report = [j \in Instances |-> NoReport]
    /\ calls = [j \in Instances |-> 0]

\* the arguments the driver cell passes: short runs, exact arithmetic
Init ==
    /\ positions \in PositionGrid
    /\ system \in Stiffness
    /\ numIterations \in 0 .. MaxIterations
    /\ stepSize \in StepSizes
    /\ Unstarted

\* long runs of the integrator (positions round where halving is inexact)
LongInit ==
    /\ positions \in [Dofs -> SmallCoords]
    /\ system \in Stiffness
    /\ numIterations = LongIterations
    /\ stepSize \in StepSizes
    /\ Unstarted

\* ------------------------------------------------------------ operations
Frame == UNCHANGED <<positions, system, numIterations, stepSize>>

\* NesterovMinimizer.__init__
NewNesterov ==
    /\ pc = "idle" /\ ~constructed[Nesterov]
    /\ constructed' = [constructed EXCEPT ![Nesterov] = TRUE]
    /\ a_cur' = 0 /\ a_old' = 0
    /\ y_cur' = ZeroVec /\ y_old' = ZeroVec
    /\ x' = StoredPositions(Nesterov, positions)
    /\ Frame
    /\ UNCHANGED <<pc, self, caller, i, initialEnergy, report, calls>>

\* BFGSMinimizer.__init__
NewBFGS ==
    /\ pc = "idle" /\ ~constructed[BFGS]
    /\ constructed' = [constructed EXCEPT ![BFGS] = TRUE]
    /\ x' = StoredPositions(BFGS, positions)
    /\ Frame
    /\ UNCHANGED <<a_cur, a_old, y_cur, y_old, pc, self, caller, i,
                   initialEnergy, report, calls>>

\* benchmark, up to its call of self.minimize()
Benchmark(inst) ==
    /\ pc = "idle" /\ constructed[inst] /\ TotalCalls < MaxCalls
    /\ initialEnergy' = Energy(system, x[inst])
    /\ pc' = "minimize" /\ self' = inst /\ caller' = "benchmark"
    /\ i' = 0
    /\ calls' = [calls EXCEPT ![inst] = @ + 1]
    /\ Frame
    /\ UNCHANGED <<constructed, x, a_cur, a_old, y_cur, y_old, report>>

\* minimize() called by the user
Minimize(inst) ==
    /\ pc = "idle" /\ constructed[inst] /\ TotalCalls < MaxCalls
    /\ pc' = "minimize" /\ self' = inst /\ caller' = "direct"
    /\ i' = 0
    /\ calls' = [calls EXCEPT ![inst] = @ + 1]
    /\ Frame
    /\ UNCHANGED <<constructed, x, a_cur, a_old, y_cur, y_old, initialEnergy, report>>

\* one step of integrator.step(self.numIterations)
NesterovStep ==
    /\ pc = "minimize" /\ self = Nesterov /\ ~StepLoopDone
    /\ \E g \in {IntegratorStep(Context)} :
          /\ a_cur' = g.a_cur /\ a_old' = g.a_old
          /\ y_cur' = g.y_cur /\ y_old' = g.y_old
          /\ x' = StoredPositions(Nesterov, g.x)
    /\ i' = i + 1
    /\ Frame
    /\ UNCHANGED <<constructed, pc, self, caller, initialEnergy, report, calls>>

\* integrator.step returns, and with it NesterovMinimizer.minimize
NesterovReturn ==
    /\ pc = "minimize" /\ self = Nesterov /\ StepLoopDone
    /\ pc' = "returned"
    /\ Frame
    /\ UNCHANGED <<constructed, x, a_cur, a_old, y_cur, y_old, self, caller, i,
                   initialEnergy, report, calls>>

\* BFGSMinimizer.minimize: mm.LocalEnergyMinimizer.minimize, the engine's own
\* minimizer.  It leaves a configuration of no higher energy: each coordinate
\* has either reached the minimum or has not moved (tolerance, maxIterations).
BFGSMinimize ==
    /\ pc = "minimize" /\ self = BFGS
    /\ \E p \in [Dofs -> Coords \cup {0}] :
          /\ \A d \in Dofs : p[d] \in {0, x[BFGS][d]}
          /\ Energy(system, p) <= Energy(system, x[BFGS])
          /\ x' = StoredPositions(BFGS, p)
    /\ pc' = "returned"
    /\ Frame
    /\ UNCHANGED <<constructed, a_cur, a_old, y_cur, y_old, self, caller, i,
                   initialEnergy, report, calls>>

\* benchmark, after self.minimize() has returned
BenchmarkFinish ==
    /\ pc = "returned" /\ caller = "benchmark"
    /\ report' = [report EXCEPT ![self] =
          [valid |-> TRUE, initial |-> initialEnergy, final |-> FinalEnergyRead]]
    /\ pc' = "idle" /\ caller' = "none"
    /\ Frame
    /\ UNCHANGED <<constructed, x, a_cur, a_old, y_cur, y_old, self, i,
                   initialEnergy, calls>>

\* a direct minimize() returns to the user
MinimizeFinish ==
    /\ pc = "returned" /\ caller = "direct"
    /\ pc' = "idle" /\ caller' = "none"
    /\ Frame
    /\ UNCHANGED <<constructed, x, a_cur, a_old, y_cur, y_old, self, i,
                   initialEnergy, report, calls>>

Next ==
    \/ NewNesterov
    \/ NewBFGS
    \/ \E inst \in Instances : Benchmark(inst)
    \/ \E inst \in Instances : Minimize(inst)
    \/ NesterovStep
    \/ NesterovReturn
    \/ BFGSMinimize
    \/ BenchmarkFinish
    \/ MinimizeFinish

Spec == Init /\ [][Next]_vars

LongSpec == LongInit /\ [][Next]_vars

\* integrator.step is a synchronous loop: a step that can run does run
FairSpec == Spec /\ WF_vars(NesterovStep) /\ WF_vars(NesterovReturn)

\* ------------------------------------------------------------ claims
Abs(v) == IF v < 0 THEN 0 - v ELSE v

\* a transition that is one integrator step of the Nesterov minimizer
IsStep == pc = "minimize" /\ self = Nesterov /\ i' = i + 1

\* a transition that enters benchmark (up to its call of minimize)
IsBenchmarkEntry == pc = "idle" /\ pc' = "minimize" /\ caller' = "benchmark"

\* C1: every integrator step writes x_next = y_cur + ((a_old_prev - 1) / a_cur)
\* * (y_cur - y_old_prev), with a_old_prev and y_old_prev the values a_old and
\* y_old held before the step overwrote them.
C1_MomentumFromPreStepValues ==
    [][IsStep =>
        x'[Nesterov] = [d \in Dofs |->
            y_cur'[d] + Momentum(a_old, a_cur', y_cur'[d] - y_old[d])]]_vars

\* C2: at the start of every invocation of minimize on the Nesterov minimizer,
\* before its first step, a_old = 0 and y_old is the configuration.
C2_MomentumResetAtRunStart ==
    (pc = "minimize" /\ self = Nesterov /\ i = 0)
        => (a_old = 0 /\ y_old = x[Nesterov])

\* C3: with numIterations = 0 the positions of the Nesterov minimizer are never
\* changed, and a benchmark reports a final energy equal to the initial one.
C3_ZeroIterationsChangeNothing ==
    numIterations = 0 =>
        /\ constructed[Nesterov] => x[Nesterov] = positions
        /\ report[Nesterov].valid => report[Nesterov].final = report[Nesterov].initial

C3_Witness ==
    /\ numIterations = 0
    /\ report[Nesterov].valid
    /\ calls[Nesterov] = MaxCalls
    /\ positions # ZeroVec

\* C4: benchmark reads the initial energy at the configuration before any
\* update step, runs minimize to completion, and only then reads the final
\* energy, fresh, at the configuration the loop left.
C4_BenchmarkOrder ==
    [][/\ IsBenchmarkEntry =>
            (initialEnergy' = Energy(system, x[self']) /\ x' = x /\ i' = 0)
       /\ pc # "idle" => initialEnergy' = initialEnergy
       /\ report' # report =>
            /\ pc = "returned" /\ caller = "benchmark"
            /\ x' = x
            /\ report'[self] = [valid |-> TRUE, initial |-> initialEnergy,
                                final |-> Energy(system, x[self])]]_vars

C4_Witness ==
    /\ pc = "idle"
    /\ report[Nesterov].valid
    /\ report[Nesterov].final # report[Nesterov].initial
    /\ report[Nesterov].final = Energy(system, x[Nesterov])

\* C5: every step's coefficient satisfies a_cur^2 - a_cur = a_old_prev^2, to
\* within the rounding of one unit of a_cur, from the seed a_old = 0 on and
\* for 20 iterations and more.
C5_CoefficientRecurrence ==
    [][IsStep =>
        Abs(a_cur' * a_cur' - AScale * a_cur' - a_old * a_old) <= 2 * a_cur']_vars

C5_Witness ==
    /\ self = Nesterov /\ pc = "minimize"
    /\ calls[Nesterov] = 1
    /\ i >= 20
    /\ a_cur > 10 * AScale

\* C7: a benchmarked run of the Nesterov minimizer with at least one
\* iteration and a small step size, started away from the minimum of the
\* quadratic, ends at a strictly lower energy than it started at.
C7_EnergyDecreases ==
    (/\ pc = "returned" /\ self = Nesterov /\ caller = "benchmark"
     /\ numIterations >= 1
     /\ SmallStep(system, stepSize)
     /\ initialEnergy > 0)
        => Energy(system, x[Nesterov]) < initialEnergy

C7_Witness ==
    /\ pc = "returned" /\ self = Nesterov /\ caller = "benchmark"
    /\ i >= 2
    /\ SmallStep(system, stepSize)
    /\ initialEnergy > 0
    /\ Energy(system, x[Nesterov]) > 0
    /\ Energy(system, x[Nesterov]) < initialEnergy

\* C8: minimize of the Nesterov minimizer always returns, after exactly
\* numIterations steps, and neither numIterations nor the step size changes.
C8_ExactlyNumIterations ==
    /\ [](pc = "returned" /\ self = Nesterov => i = numIterations)
    /\ [][/\ numIterations' = numIterations
          /\ stepSize' = stepSize
          /\ a_cur' # a_cur => (i' = i + 1 /\ i < numIterations)]_vars
    /\ (pc = "minimize" /\ self = Nesterov) ~> (pc = "returned")

C8_Witness ==
    /\ pc = "returned" /\ self = Nesterov
    /\ i = MaxIterations
    /\ x[Nesterov] = ZeroVec
    /\ positions # ZeroVec

C10_ContextsAreIndependent ==
    [][/\ positions' = positions
       /\ \A j \in Instances :
            x'[j] # x[j] =>
                \/ pc = "minimize" /\ self = j
                \/ ~constructed[j] /\ constructed'[j] /\ x'[j] = positions
       /\ (IsBenchmarkEntry /\ calls[self'] = 0) =>
            initialEnergy' = Energy(system, positions)]_vars

C10_Witness ==
    /\ pc = "minimize" /\ self = BFGS /\ caller = "benchmark"
    /\ calls[BFGS] = 1
    /\ report[Nesterov].valid
    /\ x[Nesterov] # positions
    /\ initialEnergy = report[Nesterov].initial
    /\ initialEnergy # report[Nesterov].final

====
